---- MODULE Spec2Model ----
(***************************************************************************)
(* Model of the stock-options-analyzer server: the /api/options-weeks      *)
(* handler (src/api/index.js, and its near-duplicate in                    *)
(* src/client/src/App.vue), the Goal Scorer, the Chain Selector and the    *)
(* Expiration Scheduler.                                                   *)
(*                                                                         *)
(* Numbers.  The code computes in IEEE doubles; the model computes in      *)
(* exact rationals <<n, d>> (d > 0, lowest terms).  Money is counted in    *)
(* cents, time in ticks of half a day (DayLen ticks per day).              *)
(*                                                                         *)
(* normalCDF needs exp, log and sqrt, which the model does not compute:    *)
(* each raw contract is drawn together with the two values normalCDF       *)
(* takes for it (at d1 and at d2), a pair of percentages (its field cdf).  *)
(***************************************************************************)
EXTENDS Integers, Sequences, FiniteSets, TLC

VARIABLES
    variant,      \* which deployed handler runs: "api" (src/api/index.js) or "client" (App.vue)
    clock,        \* Date.now(), in ticks
    pc,           \* position of the handler: the await it is suspended at, or "done"
    symbol,       \* req.params.symbol after toUpperNoSpaces
    currentPrice, \* quote.price.regularMarketPrice
    expirations,  \* base.expirationDates, as the handler last left it
    targets,      \* the scheduler's selected target dates
    idx,          \* index in targets of the chain fetch in flight
    baseReply,    \* history: what yf.options(symbol) settled with, <<>> before it does
    fetched,      \* history: the replies of the per-date chain fetches, in order
    emitted,      \* history: for each element of results, the index of its target
    results,      \* the handler's results array
    response,     \* what res.status(..).json(..) sent, or NoResponse
    scorerIn,     \* inputs of a series of Goal Scorer calls
    scorerLog,    \* history: the Goal Scorer calls made and what they returned
    quoted,       \* history: what yf.quoteSummary settled with, <<>> before it does
    probLog       \* history: the call of calculateAssignmentProbability made on its own

vars == <<variant, clock, pc, symbol, currentPrice, expirations, targets, idx,
          baseReply, fetched, emitted, results, response, scorerIn, scorerLog,
          quoted, probLog>>

handlerVars == <<variant, clock, pc, symbol, currentPrice, expirations, targets,
                 idx, baseReply, fetched, emitted, results, response, quoted>>

-----------------------------------------------------------------------------
(* Bounds of the model *)

MaxExp == 5        \* longest list of expiration dates the chain source returns
MaxCalls == 2      \* longest list of raw calls in one chain
MaxScored == 2     \* Goal Scorer calls in one series
MaxTicks == 1      \* how far the clock advances during one request

-----------------------------------------------------------------------------
(* Exact rational arithmetic standing for the code's double arithmetic *)

RECURSIVE Gcd(_, _)
Gcd(a, b) == IF b = 0 THEN a ELSE Gcd(b, a % b)

Abs(x) == IF x < 0 THEN -x ELSE x

\* the rational n/d in lowest terms with a positive denominator
R(n, d) ==
    LET s == IF d < 0 THEN -1 ELSE 1
        g == Gcd(Abs(n), Abs(d))
    IN  <<(s * n) \div g, (s * d) \div g>>

RInt(n) == <<n, 1>>
RMul(a, b) ==
    LET g1 == Gcd(Abs(a[1]), b[2])
        g2 == Gcd(Abs(b[1]), a[2])
    IN  R((a[1] \div g1) * (b[1] \div g2), (a[2] \div g2) * (b[2] \div g1))
RDiv(a, b) == RMul(a, IF b[1] < 0 THEN <<-b[2], -b[1]>> ELSE <<b[2], b[1]>>)
RAdd(a, b) ==
    LET g == Gcd(a[2], b[2])
    IN  R(a[1] * (b[2] \div g) + b[1] * (a[2] \div g), (a[2] \div g) * b[2])
RSub(a, b) == RAdd(a, <<-b[1], b[2]>>)
RLe(a, b) == a[1] * b[2] <= b[1] * a[2]
RLt(a, b) == a[1] * b[2] < b[1] * a[2]
RGe(a, b) == RLe(b, a)
RGt(a, b) == RLt(b, a)
RMin(a, b) == IF RLe(a, b) THEN a ELSE b
RMax(a, b) == IF RLe(a, b) THEN b ELSE a

\* floor of a rational
RFloor(a) == IF a[1] >= 0 THEN a[1] \div a[2] ELSE -((-a[1] + a[2] - 1) \div a[2])

\* Number.prototype.toFixed(k) for k = 3, 2, 1: the decimal string, held as the
\* integer count of its last digit's unit (thousandths, hundredths, tenths),
\* rounded to nearest, ties away from zero
ToFixed(a, unitsPerOne) ==
    LET s == IF a[1] < 0 THEN -1 ELSE 1
        n == Abs(a[1])
        whole == n \div a[2]
        frac == R(n % a[2], a[2])
        scaled == RMul(frac, RInt(unitsPerOne))
        twice == RAdd(RMul(scaled, RInt(2)), RInt(1))
    IN  s * (whole * unitsPerOne + RFloor(RMul(twice, <<1, 2>>)))

-----------------------------------------------------------------------------
(* Time *)

DayLen == 2              \* ticks in a day (1000 * 3600 * 24 ms)
DaysPerYear == 365
SecondsPerDay == 86400   \* 3600 * 24
SecondsPerTick == SecondsPerDay \div DayLen  \* Date.getTime() / 1000 of one tick

\* (target.getTime() - Date.now()) / (1000 * 3600 * 24), in days
DaysBetween(target, now) == R(target - now, DayLen)
\* (target.getTime() - Date.now()) / (1000 * 3600 * 24 * 365), in years
YearsBetween(target, now) == R(target - now, DayLen * DaysPerYear)

-----------------------------------------------------------------------------
(* Goal Scorer *)

Disqualified == <<-1, 1>>   \* return -1

WeeklyTargetApi == <<1, 1000>>      \* 0.001
BiweeklyTargetApi == <<2, 1000>>    \* 0.002
WeeklyTargetClient == <<25, 10000>> \* 0.0025
BiweeklyTargetClient == <<5, 1000>> \* 0.005

weeklyTarget(v) == IF v = "api" THEN WeeklyTargetApi ELSE WeeklyTargetClient
biweeklyTarget(v) == IF v = "api" THEN BiweeklyTargetApi ELSE BiweeklyTargetClient

WeeklyDays == 8
BiweeklyDays == 16

\* a gate that lets every return through in the weekly bucket
ScorerGateNoWeeklyFloor(v, returnPercent, daysToExpiry) ==
    IF RLe(daysToExpiry, RInt(WeeklyDays)) THEN TRUE
    ELSE IF RLe(daysToExpiry, RInt(BiweeklyDays)) THEN RGe(returnPercent, biweeklyTarget(v))
    ELSE FALSE

\* meetsTarget as calculateGoalBasedScore derives it
ScorerGate(v, returnPercent, daysToExpiry) ==
    IF RLe(daysToExpiry, RInt(WeeklyDays)) THEN RGe(returnPercent, weeklyTarget(v))
    ELSE IF RLe(daysToExpiry, RInt(BiweeklyDays)) THEN RGe(returnPercent, biweeklyTarget(v))
    ELSE FALSE

\* a penalty that rewards the risky side of the boundary
PenaltyInverted(assignmentProbability) ==
    IF RGt(assignmentProbability, RInt(30)) THEN <<1, 1>> ELSE <<1, 2>>

\* highProbabilityPenalty
HighProbabilityPenalty(assignmentProbability) ==
    IF RGt(assignmentProbability, RInt(30)) THEN <<1, 2>> ELSE <<1, 1>>

\* calculateGoalBasedScore(premium, assignmentProbability, strike, currentPrice,
\* daysToExpiry); assignmentProbability is on the 0-100 scale
calculateGoalBasedScore(v, premium, assignmentProbability, strike, price, daysToExpiry) ==
    LET returnPercent == RDiv(premium, price)
    IN  IF ~ScorerGate(v, returnPercent, daysToExpiry) THEN Disqualified
        ELSE LET baseScore == RDiv(returnPercent,
                                   RAdd(RDiv(assignmentProbability, RInt(100)), <<1, 1000>>))
             IN  RMul(baseScore, HighProbabilityPenalty(assignmentProbability))

-----------------------------------------------------------------------------
(* Option Pricing Model and Probability Refiner *)

Null == <<>>   \* null or undefined
Call == "call"

\* calculateDelta; cdfD1 is normalCDF(d1)
calculateDelta(price, strike, timeToExpiry, cdfD1, optionType) ==
    IF RLe(timeToExpiry, RInt(0))
    THEN IF optionType = Call
         THEN (IF price > strike THEN RInt(1) ELSE RInt(0))
         ELSE (IF price < strike THEN RInt(-1) ELSE RInt(0))
    ELSE IF optionType = Call THEN cdfD1 ELSE RSub(cdfD1, RInt(1))

DefaultVol == <<25, 100>>       \* 0.25
OneWeekYears == <<7, 365>>      \* 7/365

\* Math.min(2.0, Math.max(0.5, sigma / defaultVol))
VolAdjustment(sigma) == RMin(RInt(2), RMax(<<1, 2>>, RDiv(sigma, DefaultVol)))

\* 1 + (0.1 * (7/365 - T) / (7/365)) when T < 7/365, else no change
TimeAcceleration(T) ==
    IF RLt(T, OneWeekYears)
    THEN RAdd(RInt(1), RDiv(RMul(<<1, 10>>, RSub(OneWeekYears, T)), OneWeekYears))
    ELSE RInt(1)

\* the multiplier taken from strike / spot instead of spot / strike
MoneynessAdjustmentInverted(price, strike) ==
    LET moneyness == R(strike, price)
    IN  IF RGt(moneyness, <<105, 100>>) THEN <<11, 10>>
        ELSE IF RGt(moneyness, <<95, 100>>) /\ RLe(moneyness, <<105, 100>>) THEN <<105, 100>>
        ELSE RInt(1)

\* the moneyness multiplier: 1.1, 1.05 or none
MoneynessAdjustment(price, strike) ==
    LET moneyness == R(price, strike)
    IN  IF RGt(moneyness, <<105, 100>>) THEN <<11, 10>>
        ELSE IF RGt(moneyness, <<95, 100>>) /\ RLe(moneyness, <<105, 100>>) THEN <<105, 100>>
        ELSE RInt(1)

\* a floor without the ceiling
ClampFloorOnly(x) == RMax(RInt(0), x)

\* Math.max(0, Math.min(1, x))
Clamp01(x) == RMax(RInt(0), RMin(RInt(1), x))

\* an expired call counted as assigned only when strictly in the money
ExpiredProbabilityStrict(price, strike) == IF strike < price THEN RInt(1) ELSE RInt(0)

\* strikePrice <= currentPrice ? 1 : 0
ExpiredProbability(price, strike) == IF strike <= price THEN RInt(1) ELSE RInt(0)

\* calculateAssignmentProbability of src/api/index.js; cdfD2 is normalCDF(d2).
\* boost (the moneyness multiplier applied, 1 when none was) and unclamped (the
\* value handed to the final clamp) are locals kept for the properties
calculateAssignmentProbability(price, strike, timeToExpiry, sigma, marketDelta, cdfD2) ==
    IF RLe(timeToExpiry, RInt(0))
    THEN [original |-> ExpiredProbability(price, strike),
          enhanced |-> ExpiredProbability(price, strike),
          boost |-> RInt(1),
          unclamped |-> ExpiredProbability(price, strike)]
    ELSE LET originalProb == cdfD2
             blended == IF marketDelta # Null
                        THEN RAdd(RMul(originalProb, <<7, 10>>),
                                  RMul(<<Abs(marketDelta[1]), marketDelta[2]>>, <<3, 10>>))
                        ELSE originalProb
             scaled == RMul(blended, VolAdjustment(sigma))
             accelerated == RMul(scaled, TimeAcceleration(timeToExpiry))
             boosted == RMul(accelerated, MoneynessAdjustment(price, strike))
         IN  [original |-> originalProb, enhanced |-> Clamp01(boosted),
              boost |-> MoneynessAdjustment(price, strike),
              unclamped |-> boosted]

\* calculateAssignmentProbability of src/client/src/App.vue: no refiner
calculateAssignmentProbabilityClient(price, strike, timeToExpiry, cdfD2) ==
    IF RLe(timeToExpiry, RInt(0))
    THEN ExpiredProbability(price, strike)
    ELSE cdfD2

\* the value of one variant's calculateAssignmentProbability, as the record of
\* src/api/index.js (the function of App.vue returns the one number)
AssignmentProbs(v, price, strike, timeToExpiry, sigma, marketDelta, cdfD2) ==
    IF v = "api"
    THEN calculateAssignmentProbability(price, strike, timeToExpiry, sigma, marketDelta, cdfD2)
    ELSE LET p == calculateAssignmentProbabilityClient(price, strike, timeToExpiry, cdfD2)
         IN  [original |-> p, enhanced |-> p, boost |-> RInt(1), unclamped |-> p]

-----------------------------------------------------------------------------
(* Chain Selector: mapOption *)

NA == <<"N/A", 0>>                  \* the string 'N/A'
Num(k) == <<"num", k>>              \* a decimal string of toFixed(3), k thousandths
NaN == <<>>

\* parseFloat of a goalScore field
ParseFloat(field) == IF field[1] = "num" THEN R(field[2], 1000) ELSE NaN

\* o.impliedVolatility || 0.25 (0 stands for an absent or zero field)
Volatility(o) == IF o.impliedVolatility = 0 THEN DefaultVol ELSE R(o.impliedVolatility, 100)

\* a midpoint taken as soon as one side is quoted
PremiumEitherSide(o) ==
    IF o.bid # 0 \/ o.ask # 0 THEN R(o.bid + o.ask, 2) ELSE RInt(o.lastPrice)

\* (o.bid && o.ask) ? (o.bid + o.ask) / 2 : (o.lastPrice || 0), in cents
Premium(o) ==
    IF o.bid # 0 /\ o.ask # 0 THEN R(o.bid + o.ask, 2) ELSE RInt(o.lastPrice)

\* a presentation gate on the 0.25% weekly figure whatever the scorer uses
WeeklyPercentFixed(v) == <<25, 100>>

\* the presentation gate's percentage thresholds
WeeklyPercent(v) == IF v = "api" THEN <<1, 10>> ELSE <<25, 100>>      \* 0.1 / 0.25
BiweeklyPercent(v) == IF v = "api" THEN <<2, 10>> ELSE <<5, 10>>      \* 0.2 / 0.5

\* x / y as a ratio string: toFixed(3), or 'N/A'
RatioField(premium, price, prob) ==
    IF RGt(premium, RInt(0)) /\ RGt(prob, RInt(0))
    THEN Num(ToFixed(RDiv(RMul(RDiv(premium, RInt(price)), RInt(100)),
                          RMul(prob, RInt(100))), 1000))
    ELSE NA

\* goalScore > 0 ? goalScore.toFixed(3) : enhancedRatio
GoalScoreField(goalScore, ratio) ==
    IF RGt(goalScore, RInt(0)) THEN Num(ToFixed(goalScore, 1000)) ELSE ratio

\* Math.round
MathRound(x) == RFloor(RAdd(x, <<1, 2>>))

\* mapOption(o) for the chain of `target`; nowT and nowD are the two values
\* Date.now() returned (for timeToExpiry and for daysToExpiry)
mapOption(v, o, target, nowT, nowD, price) ==
    LET timeToExpiry == YearsBetween(target, nowT)
        daysToExpiry == DaysBetween(target, nowD)
        volatility == Volatility(o)
        cdfD1 == R(o.cdf[1], 100)
        cdfD2 == R(o.cdf[2], 100)
        theoreticalDelta == calculateDelta(price, o.strike, timeToExpiry, cdfD1, Call)
        assignmentProbs == AssignmentProbs(v, price, o.strike, timeToExpiry, volatility,
                                           theoreticalDelta, cdfD2)
        premium == Premium(o)
        goalScore == calculateGoalBasedScore(v, premium, RMul(assignmentProbs.enhanced, RInt(100)),
                                             o.strike, RInt(price), daysToExpiry)
        originalRatio == RatioField(premium, price, assignmentProbs.original)
        enhancedRatio == RatioField(premium, price, assignmentProbs.enhanced)
        weeklyReturn == IF RGt(premium, RInt(0))
                        THEN RMul(RDiv(premium, RInt(price)), RInt(100)) ELSE RInt(0)
        meetsWeeklyTarget == RLe(daysToExpiry, RInt(WeeklyDays))
                             /\ RGe(weeklyReturn, WeeklyPercent(v))
        meetsBiweeklyTarget == RLe(daysToExpiry, RInt(BiweeklyDays))
                               /\ RGe(weeklyReturn, BiweeklyPercent(v))
    IN  [contractSymbol |-> o.contractSymbol,
         strike |-> o.strike,
         lastPrice |-> o.lastPrice,
         bid |-> o.bid,
         ask |-> o.ask,
         impliedVolatility |-> o.impliedVolatility,
         assignmentProbability |-> ToFixed(RMul(assignmentProbs.original, RInt(100)), 10),
         assignmentProbabilityEnhanced |-> ToFixed(RMul(assignmentProbs.enhanced, RInt(100)), 10),
         premium |-> ToFixed(RDiv(premium, RInt(100)), 100),
         returnPercent |-> IF RGt(premium, RInt(0)) THEN ToFixed(weeklyReturn, 1000) ELSE 0,
         goalScore |-> GoalScoreField(goalScore, enhancedRatio),
         returnAssignmentRatio |-> originalRatio,
         returnAssignmentRatioEnhanced |-> enhancedRatio,
         meetsTarget |-> meetsWeeklyTarget \/ meetsBiweeklyTarget,
         targetType |-> IF meetsWeeklyTarget THEN "weekly"
                        ELSE IF meetsBiweeklyTarget THEN "bi-weekly" ELSE "none",
         daysToExpiry |-> MathRound(daysToExpiry),
         \* locals of mapOption kept for the properties
         rawPremium |-> premium,
         rawScore |-> goalScore,
         probs |-> assignmentProbs,
         timeToExpiry |-> timeToExpiry,
         rawDays |-> daysToExpiry]


-----------------------------------------------------------------------------
(* Chain Selector: band, ranking, result *)

\* currentPrice * 1.001 and currentPrice * 1.10
otmLow(price) == R(price * 1001, 1000)
otmHigh(price) == R(price * 110, 100)

\* a band with no lower edge above spot
InBandFromSpot(call, price) ==
    RGe(RInt(call.strike), RInt(price)) /\ RLe(RInt(call.strike), otmHigh(price))

\* call.strike >= otmLow && call.strike <= otmHigh
InBand(call, price) ==
    RGe(RInt(call.strike), otmLow(price)) /\ RLe(RInt(call.strike), otmHigh(price))

\* Array.prototype.filter
RECURSIVE SelectInBand(_, _)
SelectInBand(calls, price) ==
    IF calls = <<>> THEN <<>>
    ELSE (IF InBand(Head(calls), price) THEN <<Head(calls)>> ELSE <<>>)
         \o SelectInBand(Tail(calls), price)

RECURSIVE SelectMeetsTarget(_)
SelectMeetsTarget(calls) ==
    IF calls = <<>> THEN <<>>
    ELSE (IF Head(calls).meetsTarget THEN <<Head(calls)>> ELSE <<>>)
         \o SelectMeetsTarget(Tail(calls))

\* the comparator (a, b) => parseFloat(b.goalScore) - parseFloat(a.goalScore):
\* TRUE when it is positive (a sorts after b); NaN counts as 0
ScoreCmpPositive(a, b) ==
    /\ ParseFloat(a.goalScore) # NaN
    /\ ParseFloat(b.goalScore) # NaN
    /\ RGt(ParseFloat(b.goalScore), ParseFloat(a.goalScore))

\* the comparator (a, b) => a.strike - b.strike: TRUE when it is positive
StrikeCmpPositive(a, b) == a.strike > b.strike

\* Array.prototype.sort (stable): insertion of x into a sorted prefix
RECURSIVE InsertByScore(_, _)
InsertByScore(sorted, x) ==
    IF sorted = <<>> THEN <<x>>
    ELSE LET last == sorted[Len(sorted)]
         IN  IF ScoreCmpPositive(last, x)
             THEN Append(InsertByScore(SubSeq(sorted, 1, Len(sorted) - 1), x), last)
             ELSE Append(sorted, x)

RECURSIVE SortByScoreDesc(_)
SortByScoreDesc(calls) ==
    IF calls = <<>> THEN <<>>
    ELSE InsertByScore(SortByScoreDesc(SubSeq(calls, 1, Len(calls) - 1)), calls[Len(calls)])

RECURSIVE InsertByStrike(_, _)
InsertByStrike(sorted, x) ==
    IF sorted = <<>> THEN <<x>>
    ELSE LET last == sorted[Len(sorted)]
         IN  IF StrikeCmpPositive(last, x)
             THEN Append(InsertByStrike(SubSeq(sorted, 1, Len(sorted) - 1), x), last)
             ELSE Append(sorted, x)

RECURSIVE SortByStrike(_)
SortByStrike(calls) ==
    IF calls = <<>> THEN <<>>
    ELSE InsertByStrike(SortByStrike(SubSeq(calls, 1, Len(calls) - 1)), calls[Len(calls)])

\* allCalls: (opt.calls || []).filter(in band).map(mapOption); reads holds the
\* values Date.now() returned during the map, two for each mapped contract
AllCalls(v, calls, target, reads, price) ==
    LET kept == SelectInBand(calls, price)
    IN  [i \in 1..Len(kept) |->
            mapOption(v, kept[i], target, reads[2 * i - 1], reads[2 * i], price)]

\* qualifyingCalls: allCalls.filter(meetsTarget).sort(by goalScore, descending)
QualifyingCalls(allCalls) == SortByScoreDesc(SelectMeetsTarget(allCalls))

\* the returned list taken from the ranked qualifying list
FinalCallsQualifyingOnly(allCalls) == QualifyingCalls(allCalls)

\* finalCalls: allCalls.sort(by strike)
FinalCalls(allCalls) == SortByStrike(allCalls)

\* a best option taken from the wrong end of the ranking
BestOptionLast(qualifyingCalls) ==
    IF qualifyingCalls = <<>> THEN Null ELSE <<qualifyingCalls[Len(qualifyingCalls)]>>

\* bestOption: qualifyingCalls[0] || null (<<>> is null, <<c>> the contract c)
BestOption(qualifyingCalls) == IF qualifyingCalls = <<>> THEN Null ELSE <<qualifyingCalls[1]>>

\* bestOptionReason: '' is <<>>, the template string is the tuple of its holes
BestOptionReason(bestOption) ==
    IF bestOption # Null
    THEN <<bestOption[1].targetType, bestOption[1].returnPercent,
           bestOption[1].assignmentProbability, bestOption[1].goalScore>>
    ELSE <<>>

\* a flag that needs a runner-up
HasQualifyingOptionsSeveral(qualifyingCalls) == Len(qualifyingCalls) > 1

\* hasQualifyingOptions: qualifyingCalls.length > 0
HasQualifyingOptions(qualifyingCalls) == Len(qualifyingCalls) > 0

\* Math.floor((opt.expirationDate?.getTime?.() || target.getTime()) / 1000)
ExpirationSeconds(opt, target) ==
    (IF opt.expirationDate # 0 THEN opt.expirationDate ELSE target) * SecondsPerTick

\* the object pushed on results for one chain
ExpirationResult(v, opt, target, reads, price) ==
    LET allCalls == AllCalls(v, opt.calls, target, reads, price)
        qualifyingCalls == QualifyingCalls(allCalls)
        bestOption == BestOption(qualifyingCalls)
    IN  [expiration |-> ExpirationSeconds(opt, target),
         calls |-> FinalCalls(allCalls),
         bestOption |-> bestOption,
         bestOptionReason |-> BestOptionReason(bestOption),
         hasQualifyingOptions |-> HasQualifyingOptions(qualifyingCalls)]


-----------------------------------------------------------------------------
(* Expiration Scheduler *)

RECURSIVE InsertDate(_, _)
InsertDate(sorted, x) ==
    IF sorted = <<>> THEN <<x>>
    ELSE LET last == sorted[Len(sorted)]
         IN  IF last - x > 0
             THEN Append(InsertDate(SubSeq(sorted, 1, Len(sorted) - 1), x), last)
             ELSE Append(sorted, x)

\* expirations.sort((a, b) => a.getTime() - b.getTime())
RECURSIVE SortDates(_)
SortDates(dates) ==
    IF dates = <<>> THEN <<>>
    ELSE InsertDate(SortDates(SubSeq(dates, 1, Len(dates) - 1)), dates[Len(dates)])

\* dates.filter(d => lo <= d && d <= hi)
RECURSIVE SelectDates(_, _, _)
SelectDates(dates, lo, hi) ==
    IF dates = <<>> THEN <<>>
    ELSE (IF lo <= Head(dates) /\ Head(dates) <= hi THEN <<Head(dates)>> ELSE <<>>)
         \o SelectDates(Tail(dates), lo, hi)

\* dates.filter(d => d >= lo)
RECURSIVE SelectFrom(_, _)
SelectFrom(dates, lo) ==
    IF dates = <<>> THEN <<>>
    ELSE (IF Head(dates) >= lo THEN <<Head(dates)>> ELSE <<>>) \o SelectFrom(Tail(dates), lo)

\* Math.min(...dates), dates not empty
MinDate(dates) == CHOOSE d \in {dates[i] : i \in 1..Len(dates)} :
                      \A j \in 1..Len(dates) : d <= dates[j]

\* today: new Date() with setHours(0, 0, 0, 0)
StartOfDay(now) == now - (now % DayLen)

MaxTargets == 4       \* Math.min(4, futureExpirations.length)
WeekDays == 7         \* oneWeekMs = 7 * 24 * 3600 * 1000

\* a cut-off at the current instant instead of the start of today
FutureFromNow(sortedExpirations, now) == SelectFrom(sortedExpirations, now)

\* futureExpirations: the dates at or after the start of today
FutureExpirations(sortedExpirations, now) ==
    SelectFrom(sortedExpirations, StartOfDay(now))

\* targets of src/api/index.js, from the sorted expirations
NextNFuture(sortedExpirations, now) ==
    LET futureExpirations == FutureExpirations(sortedExpirations, now)
        n == IF MaxTargets < Len(futureExpirations) THEN MaxTargets
             ELSE Len(futureExpirations)
        firstN == SubSeq(futureExpirations, 1, n)
    IN  IF Len(firstN) = 0 /\ Len(sortedExpirations) > 0
        THEN <<sortedExpirations[Len(sortedExpirations)]>>
        ELSE firstN

\* a next target that may repeat the current one
AfterCurrentInclusive(dates, currentTarget) == SelectFrom(dates, currentTarget)

\* afterCurrent: the dates strictly after currentTarget
AfterCurrent(dates, currentTarget) == SelectFrom(dates, currentTarget + 1)

\* currentTarget of src/client/src/App.vue
CurrentTarget(dates, nowMs) ==
    LET withinWeek == SelectDates(dates, nowMs, nowMs + WeekDays * DayLen)
    IN  IF Len(withinWeek) > 0 THEN MinDate(withinWeek) ELSE MinDate(dates)

\* targets of src/client/src/App.vue
ThisWeekThenNext(dates, nowMs) ==
    LET currentTarget == CurrentTarget(dates, nowMs)
        afterCurrent == AfterCurrent(dates, currentTarget)
    IN  <<currentTarget>> \o (IF Len(afterCurrent) > 0 THEN <<MinDate(afterCurrent)>> ELSE <<>>)


-----------------------------------------------------------------------------
(* The data the external collaborators can return *)

Variants == {"api", "client"}
Symbols == {"", "AAPL"}            \* toUpperNoSpaces(req.params.symbol)
Prices == {1000, 2000}             \* regularMarketPrice, in cents
StartClocks == {20, 21}            \* Date.now() when the request arrives: midnight, noon
ExpDates == {18, 20, 24, 34, 40, 56}   \* expiration dates, in ticks

\* the sequences over S of length at most n
SeqsUpTo(S, n) == UNION {[1..k -> S] : k \in 0..n}

Raw(id, strike, bid, ask, last, iv, cdf) ==
    [contractSymbol |-> id, strike |-> strike, bid |-> bid, ask |-> ask,
     lastPrice |-> last, impliedVolatility |-> iv, cdf |-> cdf]

\* raw calls: strikes around both edges of the band of each price, premiums around
\* each return threshold, one-sided and missing quotes, absent and extreme
\* implied volatility, low and high values of normalCDF (<<at d1, at d2>>, percent)
RawContracts ==
    { Raw("A", 1000,  5,  7, 0,  0, <<50, 48>>),
      Raw("B", 1001,  2,  4, 9, 30, <<49, 47>>),
      Raw("C", 1050,  1,  1, 0,  0, <<20, 10>>),
      Raw("D", 1050,  0,  3, 2, 60, <<30, 25>>),
      Raw("E", 1100,  0,  0, 0, 10, << 5,  2>>),
      Raw("F", 1101,  9, 11, 0, 25, << 2,  1>>),
      Raw("G", 1020,  5,  5, 0, 25, <<40, 35>>),
      Raw("H", 1080,  2,  3, 0,  0, <<10,  0>>),
      Raw("I", 1010, 10, 10, 0, 50, <<100, 100>>),
      Raw("J", 2100,  4,  6, 0,  0, <<20, 15>>) }

\* target dates of a chain fetch: expired, inside a week, at and past the 8-day
\* and the 16-day edge of the tenor buckets
ChainDates == {18, 24, 36, 37, 52, 54}

\* a reply of yf.options(symbol, {date}): a rejection, a chain without options[0],
\* or options[0] with its calls and its expirationDate (0 when absent)
ErrorReply == [kind |-> "error"]
NoOptReply == [kind |-> "noopt"]
OptReply(calls, date) == [kind |-> "opt", calls |-> calls, expirationDate |-> date]

\* the replies to draw from: stamps holds the values of expirationDate
ChainReplies(chains, stamps) ==
    {ErrorReply, NoOptReply} \cup {OptReply(c, d) : c \in chains, d \in stamps}

RichChains == SeqsUpTo(RawContracts, MaxCalls)

\* the few chains the whole-request specification draws from
ThinChains ==
    { <<>>,
      <<Raw("G", 1020, 5, 5, 0, 25, <<40, 35>>)>>,
      <<Raw("F", 1101, 9, 11, 0, 25, <<2, 1>>), Raw("D", 1050, 0, 3, 2, 60, <<30, 25>>),
        Raw("B", 1001, 2, 4, 9, 30, <<49, 47>>)>> }

\* the few expiration lists the whole-request specification draws from
ThinExpLists == { <<>>, <<18>>, <<34, 24>>, <<20, 56, 40>> }

RichExpLists == SeqsUpTo(ExpDates, MaxExp)

-----------------------------------------------------------------------------
(* The /api/options-weeks handler *)

NoScorerIn == [v |-> "api", premium |-> <<0, 1>>, price |-> 1000, days |-> <<0, 1>>]

\* res.status(status).json({error: ...}) and res.json(body)
RespondError(status, error) == Append(response, [status |-> status, error |-> error])
RespondOk(body) == Append(response, [status |-> 200, body |-> body])

\* a catch block that answers with what was analysed before the failure
PartialResultsReply(sent) ==
    Append(sent, [status |-> 200, body |-> [expirations |-> results]])

\* catch (err): res.status(500).json({ error: 'Failed to fetch weekly options' })
CatchReply(sent) ==
    Append(sent, [status |-> 500, error |-> "Failed to fetch weekly options"])

HandlerInit ==
    /\ variant \in Variants
    /\ clock \in StartClocks
    /\ pc = "start"
    /\ symbol = ""
    /\ currentPrice = 0
    /\ expirations = <<>>
    /\ targets = <<>>
    /\ idx = 0
    /\ baseReply = <<>>
    /\ fetched = <<>>
    /\ emitted = <<>>
    /\ results = <<>>
    /\ response = <<>>
    /\ scorerIn = NoScorerIn
    /\ scorerLog = <<>>
    /\ quoted = <<>>
    /\ probLog = <<>>

\* the clock has not run past the span of one request
CanTick == \E start \in StartClocks : clock < start + MaxTicks

\* the values n successive reads of Date.now() can return from `now` on: the
\* clock never runs backwards, and advances at most once during the reads
ClockReads(n, now, canTick) ==
    {[i \in 1..n |-> IF i < p THEN now ELSE now + 1] :
        p \in (IF canTick THEN 1..(n + 1) ELSE {n + 1})}

\* the clock advances while the handler awaits a reply
Tick ==
    /\ pc \in {"quote", "base", "chain"}
    /\ CanTick
    /\ clock' = clock + 1
    /\ UNCHANGED <<variant, pc, symbol, currentPrice, expirations, targets, idx,
                   baseReply, fetched, emitted, results, response, scorerIn, scorerLog,
                   quoted, probLog>>

\* the request arrives: symbol check, then await yf.quoteSummary
Request ==
    /\ pc = "start"
    /\ \E sym \in Symbols :
        /\ symbol' = sym
        /\ IF sym = ""
           THEN /\ response' = RespondError(400, "Missing symbol")
                /\ pc' = "done"
           ELSE /\ response' = response
                /\ pc' = "quote"
    /\ UNCHANGED <<variant, clock, currentPrice, expirations, targets, idx,
                   baseReply, fetched, emitted, results, scorerIn, scorerLog,
                   quoted, probLog>>

\* yf.quoteSummary settles: rejection, no usable price (0), or a price;
\* then await yf.options(symbol)
QuoteReply ==
    /\ pc = "quote"
    /\ \E reply \in {-1, 0} \cup Prices :   \* -1: rejected; 0: no usable price
        /\ quoted' = <<reply>>
        /\ IF reply = -1
           THEN /\ response' = CatchReply(response)
                /\ pc' = "done"
                /\ currentPrice' = currentPrice
           ELSE IF reply = 0
           THEN /\ response' = RespondError(400, "Unable to get current stock price")
                /\ pc' = "done"
                /\ currentPrice' = currentPrice
           ELSE /\ currentPrice' = reply
                /\ pc' = "base"
                /\ response' = response
    /\ UNCHANGED <<variant, clock, symbol, expirations, targets, idx,
                   baseReply, fetched, emitted, results, scorerIn, scorerLog,
                   probLog>>

\* if (!expirations.length)
NoExpirations(dates) == Len(dates) = 0

\* an empty result structure sent in place of the failure
EmptyResultReply(sent) ==
    Append(sent, [status |-> 200, body |-> [expirations |-> <<>>]])

\* return res.status(404).json({ error: 'No expirations available' })
NoDataReply(sent) ==
    Append(sent, [status |-> 404, error |-> "No expirations available"])

\* the scheduler of the running variant; src/api/index.js sorts in place first
Schedule(v, dates, now) ==
    IF v = "api"
    THEN [expirations |-> SortDates(dates), targets |-> NextNFuture(SortDates(dates), now)]
    ELSE [expirations |-> dates, targets |-> ThisWeekThenNext(dates, now)]

\* yf.options(symbol) is rejected
BaseError ==
    /\ pc = "base"
    /\ response' = CatchReply(response)
    /\ pc' = "done"
    /\ baseReply' = <<"error">>
    /\ UNCHANGED <<variant, clock, symbol, currentPrice, expirations, targets, idx,
                   fetched, emitted, results, scorerIn, scorerLog,
                   quoted, probLog>>

\* yf.options(symbol) resolves with the expiration dates: none -> 404, else the
\* targets are selected and the first chain fetch is awaited
BaseReply(lists) ==
    /\ pc = "base"
    /\ \E dates \in lists :
        /\ baseReply' = <<"dates", dates>>
        /\ IF NoExpirations(dates)
           THEN /\ response' = NoDataReply(response)
                /\ pc' = "done"
                /\ expirations' = dates
                /\ UNCHANGED <<targets, idx>>
           ELSE LET sched == Schedule(variant, dates, clock)
                IN  /\ expirations' = sched.expirations
                    /\ targets' = sched.targets
                    /\ idx' = 1
                    /\ pc' = "chain"
                    /\ response' = response
    /\ UNCHANGED <<variant, clock, symbol, currentPrice, fetched, emitted, results,
                   scorerIn, scorerLog,
                   quoted, probLog>>

\* a result put in front of the earlier ones
PushResultFront(res, r) == <<r>> \o res

\* results.push(r)
PushResult(res, r) == Append(res, r)

\* the body of res.json on success
SuccessBody(sym, price, res) ==
    [symbol |-> sym, currentPrice |-> price,
     otmRange |-> [low |-> otmLow(price), high |-> otmHigh(price)],
     expirations |-> res]

\* how many times mapOption reads Date.now() for one reply: twice for each
\* contract of the band
NowReads(reply, price) ==
    IF reply.kind = "opt" THEN 2 * Len(SelectInBand(reply.calls, price)) ELSE 0

\* yf.options(symbol, {date: target}) settles for targets[idx]: a rejection ends
\* the request with 500; without options[0] the target is skipped; otherwise its
\* result is pushed, each contract mapped with its own two reads of the clock.
\* After the last target the handler responds.
ChainReply(chains, stamped) ==
    /\ pc = "chain"
    /\ \E reply \in ChainReplies(chains, (IF stamped THEN {} ELSE {0}) \cup {targets[idx]}) :
        /\ fetched' = Append(fetched, reply)
        /\ IF reply.kind = "error"
           THEN /\ response' = CatchReply(response)
                /\ pc' = "done"
                /\ UNCHANGED <<results, emitted, idx, clock>>
           ELSE \E reads \in ClockReads(NowReads(reply, currentPrice), clock, CanTick) :
                LET res == IF reply.kind = "noopt" THEN results
                           ELSE PushResult(results,
                                    ExpirationResult(variant, reply, targets[idx],
                                                     reads, currentPrice))
                IN  /\ results' = res
                    /\ clock' = IF Len(reads) = 0 THEN clock ELSE reads[Len(reads)]
                    /\ emitted' = IF reply.kind = "noopt" THEN emitted
                                  ELSE PushResult(emitted, idx)
                    /\ IF idx < Len(targets)
                       THEN /\ idx' = idx + 1
                            /\ pc' = "chain"
                            /\ response' = response
                       ELSE /\ idx' = idx
                            /\ pc' = "done"
                            /\ response' = RespondOk(SuccessBody(symbol, currentPrice, results'))
    /\ UNCHANGED <<variant, symbol, currentPrice, expirations, targets,
                   baseReply, scorerIn, scorerLog,
                   quoted, probLog>>

BaseReplyThin == BaseReply(ThinExpLists)
\* chains with and without an expirationDate
ChainReplyThin == ChainReply(ThinChains, FALSE)

Init == HandlerInit

Next == Tick \/ Request \/ QuoteReply \/ BaseError \/ BaseReplyThin \/ ChainReplyThin

\* one whole request, from its arrival to its response
Spec == Init /\ [][Next]_vars


-----------------------------------------------------------------------------
(* The Expiration Scheduler on every short list of dates: the handler at its *)
(* await of yf.options(symbol)                                              *)

SchedInit ==
    /\ variant \in Variants
    /\ clock \in StartClocks
    /\ pc = "base"
    /\ symbol = "AAPL"
    /\ currentPrice \in Prices
    /\ expirations = <<>>
    /\ targets = <<>>
    /\ idx = 0
    /\ baseReply = <<>>
    /\ fetched = <<>>
    /\ emitted = <<>>
    /\ results = <<>>
    /\ response = <<>>
    /\ scorerIn = NoScorerIn
    /\ scorerLog = <<>>
    /\ quoted = <<currentPrice>>
    /\ probLog = <<>>

BaseReplyRich == BaseReply(RichExpLists)

SchedNext == BaseReplyRich

SpecSched == SchedInit /\ [][SchedNext]_vars

-----------------------------------------------------------------------------
(* The Chain Selector on every short chain: the handler at its await of the  *)
(* chain of its only target                                                 *)

ChainInit ==
    /\ variant \in Variants
    /\ clock \in StartClocks
    /\ pc = "chain"
    /\ symbol = "AAPL"
    /\ currentPrice \in Prices
    /\ \E t \in ChainDates : /\ expirations = <<t>>
                             /\ targets = <<t>>
    /\ idx = 1
    /\ baseReply = <<>>
    /\ fetched = <<>>
    /\ emitted = <<>>
    /\ results = <<>>
    /\ response = <<>>
    /\ scorerIn = NoScorerIn
    /\ scorerLog = <<>>
    /\ quoted = <<currentPrice>>
    /\ probLog = <<>>

\* every short chain, each carrying its expirationDate
ChainReplyRich == ChainReply(RichChains, TRUE)

ChainNext == ChainReplyRich

SpecChain == ChainInit /\ [][ChainNext]_vars

-----------------------------------------------------------------------------
(* The Goal Scorer on its own: a series of calls with the same premium,     *)
(* price and day count, and varying assignment probability                  *)

ScorerPremiums == {<<0, 1>>, <<1, 2>>, <<1, 1>>, <<2, 1>>, <<5, 2>>, <<3, 1>>, <<5, 1>>, <<10, 1>>}
ScorerDays == {<<-1, 2>>, <<2, 1>>, <<8, 1>>, <<17, 2>>, <<16, 1>>, <<33, 2>>}
\* assignment probabilities on the 0-100 scale, around the 30-point boundary
ScorerProbs == {<<0, 1>>, <<10, 1>>, <<30, 1>>, <<301, 10>>, <<31, 1>>, <<100, 1>>}

ScorerInit ==
    /\ variant = "api"
    /\ clock = 0
    /\ pc = "done"
    /\ symbol = ""
    /\ currentPrice = 0
    /\ expirations = <<>>
    /\ targets = <<>>
    /\ idx = 0
    /\ baseReply = <<>>
    /\ fetched = <<>>
    /\ emitted = <<>>
    /\ results = <<>>
    /\ response = <<>>
    /\ scorerIn \in [v : Variants, premium : ScorerPremiums, price : Prices, days : ScorerDays]
    /\ scorerLog = <<>>
    /\ quoted = <<>>
    /\ probLog = <<>>

\* one call of calculateGoalBasedScore
ScoreCall ==
    /\ Len(scorerLog) < MaxScored
    /\ \E prob \in ScorerProbs :
        scorerLog' = Append(scorerLog,
            [prob |-> prob,
             score |-> calculateGoalBasedScore(scorerIn.v, scorerIn.premium, prob, 0,
                                               RInt(scorerIn.price), scorerIn.days)])
    /\ UNCHANGED <<handlerVars, scorerIn, probLog>>

ScorerNext == ScoreCall

SpecScorer == ScorerInit /\ [][ScorerNext]_vars

-----------------------------------------------------------------------------
(* calculateAssignmentProbability on its own: one call on a grid of inputs,  *)
(* expired and live, with each variant's function                           *)

ProbStrikes == {900, 1000, 1001, 1050, 1100, 2000}   \* strikePrice, in cents
\* timeToExpiry in ticks: expired, zero, under a week, a week (7/365), beyond
ProbTicks == {-2, 0, 1, 6, 14, 40}
ProbSigmas == {<<0, 1>>, <<1, 10>>, <<1, 4>>, <<3, 5>>}   \* volatility
\* marketDelta: absent, or a call's or a put's delta
ProbDeltas == {Null, <<0, 1>>, <<1, 2>>, <<1, 1>>, <<-1, 2>>}
ProbCdfs == {<<0, 1>>, <<1, 100>>, <<1, 2>>, <<1, 1>>}    \* normalCDF(d2)

ProbInit ==
    /\ variant = "api"
    /\ clock = 0
    /\ pc = "done"
    /\ symbol = ""
    /\ currentPrice = 0
    /\ expirations = <<>>
    /\ targets = <<>>
    /\ idx = 0
    /\ baseReply = <<>>
    /\ fetched = <<>>
    /\ emitted = <<>>
    /\ results = <<>>
    /\ response = <<>>
    /\ scorerIn = NoScorerIn
    /\ scorerLog = <<>>
    /\ quoted = <<>>
    /\ probLog = <<>>

\* one call of calculateAssignmentProbability; a volatility of zero is drawn
\* only for an expired contract (d1 and d2 divide by it otherwise)
ProbCall ==
    /\ probLog = <<>>
    /\ \E v \in Variants, price \in Prices, strike \in ProbStrikes, ticks \in ProbTicks,
          sigma \in ProbSigmas, marketDelta \in ProbDeltas, cdfD2 \in ProbCdfs :
        /\ ticks > 0 => sigma[1] > 0
        /\ probLog' = <<[v |-> v, price |-> price, strike |-> strike,
                         timeToExpiry |-> YearsBetween(ticks, 0), sigma |-> sigma,
                         marketDelta |-> marketDelta, cdfD2 |-> cdfD2,
                         out |-> AssignmentProbs(v, price, strike, YearsBetween(ticks, 0),
                                                 sigma, marketDelta, cdfD2)]>>
    /\ UNCHANGED <<handlerVars, scorerIn, scorerLog>>

ProbNext == ProbCall

SpecProb == ProbInit /\ [][ProbNext]_vars


-----------------------------------------------------------------------------
(* Properties of the Chain Selector *)

\* the raw calls the result results[i] was computed from
RawCallsOf(i) == fetched[emitted[i]].calls

\* strike within [spot * 1.001, spot * 1.10], stated on the integers
StrikeInBand(strike, price) == strike * 1000 >= price * 1001 /\ strike * 100 <= price * 110

\* how many elements of calls carry the contract symbol id
Occurrences(calls, id) == Cardinality({j \in 1..Len(calls) : calls[j].contractSymbol = id})

\* how many raw calls with the contract symbol id lie in the band
OccurrencesInBand(calls, id, price) ==
    Cardinality({j \in 1..Len(calls) :
                    calls[j].contractSymbol = id /\ StrikeInBand(calls[j].strike, price)})

ContractSymbols == {c.contractSymbol : c \in RawContracts}

\* C1: every contract of every returned calls list (and the best option) has
\* its strike inside [spot * 1.001, spot * 1.10], and the raw calls inside the
\* band are exactly the ones returned: none is dropped, none from outside
\* the band is let in.
C1_OnlyBandContractsReturned ==
    \A i \in 1..Len(results) :
        /\ \A j \in 1..Len(results[i].calls) :
              StrikeInBand(results[i].calls[j].strike, currentPrice)
        /\ results[i].bestOption # Null =>
              StrikeInBand(results[i].bestOption[1].strike, currentPrice)
        /\ \A id \in ContractSymbols :
              Occurrences(results[i].calls, id)
                  = OccurrencesInBand(RawCallsOf(i), id, currentPrice)

\* a chain with a call below the band, one above it and one on its lower edge
\* has been analysed, and only the one on the edge was returned
C1_Witness ==
    /\ Len(results) = 1
    /\ Len(results[1].calls) = 1
    /\ results[1].calls[1].strike * 1000 = currentPrice * 1001
    /\ \E j \in 1..Len(RawCallsOf(1)) : RawCallsOf(1)[j].strike * 1000 < currentPrice * 1001

\* C2: every returned calls list is in ascending order of strike and holds
\* every raw call of the band, qualifying or not: ranking the qualifying calls
\* first neither drops nor reorders what is returned.
C2_CallsSortedByStrikeAndComplete ==
    \A i \in 1..Len(results) :
        /\ \A j, k \in 1..Len(results[i].calls) :
              j < k => results[i].calls[j].strike <= results[i].calls[k].strike
        /\ Len(results[i].calls)
              = Cardinality({j \in 1..Len(RawCallsOf(i)) :
                                StrikeInBand(RawCallsOf(i)[j].strike, currentPrice)})
        /\ \A j \in 1..Len(RawCallsOf(i)) :
              StrikeInBand(RawCallsOf(i)[j].strike, currentPrice) =>
                  \E k \in 1..Len(results[i].calls) :
                      /\ results[i].calls[k].contractSymbol = RawCallsOf(i)[j].contractSymbol
                      /\ results[i].calls[k].strike = RawCallsOf(i)[j].strike

\* a chain given in descending order of strike, whose qualifying call is not the
\* one of lowest strike, came back in ascending order with its non-qualifying
\* call still in it
C2_Witness ==
    /\ Len(results) = 1
    /\ Len(results[1].calls) = 2
    /\ RawCallsOf(1)[1].strike > RawCallsOf(1)[2].strike
    /\ results[1].calls[1].strike < results[1].calls[2].strike
    /\ ~results[1].calls[1].meetsTarget
    /\ results[1].calls[2].meetsTarget
    /\ results[1].hasQualifyingOptions

\* C3: the best option of an expiration, when there is one, is one of the
\* returned calls that meet the target, and no call of that expiration that
\* meets the target has a greater goalScore.
C3_BestOptionIsTopQualifying ==
    \A i \in 1..Len(results) :
        results[i].bestOption # Null =>
            LET best == results[i].bestOption[1]
            IN  /\ best.meetsTarget
                /\ \E j \in 1..Len(results[i].calls) : results[i].calls[j] = best
                /\ best.goalScore[1] = "num"
                /\ \A j \in 1..Len(results[i].calls) :
                      results[i].calls[j].meetsTarget =>
                          /\ results[i].calls[j].goalScore[1] = "num"
                          /\ best.goalScore[2] >= results[i].calls[j].goalScore[2]

\* two calls meet the target, the second of the chain scores strictly higher
\* and is the best option
C3_Witness ==
    /\ Len(results) = 1
    /\ Len(RawCallsOf(1)) = 2
    /\ Len(results[1].calls) = 2
    /\ \A j \in 1..2 : results[1].calls[j].meetsTarget
    /\ results[1].bestOption # Null
    /\ results[1].bestOption[1].contractSymbol = RawCallsOf(1)[2].contractSymbol
    /\ \E j \in 1..2 :
          results[1].calls[j].goalScore[2] < results[1].bestOption[1].goalScore[2]


-----------------------------------------------------------------------------
(* Properties of the whole request *)

Responded200 == pc = "done" /\ Len(response) = 1 /\ response[1].status = 200

\* the result pushed for a chain that has no calls
IsEmptyResult(r) ==
    r.calls = <<>> /\ r.bestOption = Null /\ ~r.hasQualifyingOptions

\* C4: a selected expiration for which the provider yields no contracts gets an
\* empty result and the run goes on: the successful response holds exactly one
\* result per selected target, in the order of the targets, the one of a target
\* without contracts being empty.
C4_OneResultPerTarget ==
    Responded200 =>
        /\ Len(results) = Len(targets)
        /\ \A i \in 1..Len(fetched) :
              (fetched[i].kind = "noopt" \/ fetched[i].calls = <<>>) =>
                  i <= Len(results) /\ IsEmptyResult(results[i])

\* C5: once the chain source has returned zero expiration dates the request has
\* ended with the single response 404 'No expirations available'; no target was
\* selected, no chain fetched and no result built.
C5_NoExpirationsFailsWithNoData ==
    baseReply = <<"dates", <<>>>> =>
        /\ pc = "done"
        /\ Len(response) = 1
        /\ response[1].status = 404
        /\ response[1].error = "No expirations available"
        /\ targets = <<>>
        /\ fetched = <<>>
        /\ results = <<>>

\* the chain source has returned zero expiration dates after the price was read
C5_Witness ==
    /\ baseReply = <<"dates", <<>>>>
    /\ currentPrice \in Prices
    /\ pc = "done"

\* C8: the results stand in the order of the targets they were computed for,
\* whatever chains were skipped and however the clock moved between the
\* fetches: each result carries the date of its target, and the target of a
\* later result comes later in the scheduler's selection.
C8_ResultsInTargetOrder ==
    /\ Len(emitted) = Len(results)
    /\ \A i \in 1..Len(results) :
          /\ emitted[i] \in 1..Len(targets)
          /\ results[i].expiration = targets[emitted[i]] * SecondsPerTick
    /\ \A i, j \in 1..Len(results) : i < j => emitted[i] < emitted[j]
    /\ \A i, j \in 1..Len(results) :
          i < j => \E a, b \in 1..Len(targets) :
                      /\ a < b
                      /\ results[i].expiration = targets[a] * SecondsPerTick
                      /\ results[j].expiration = targets[b] * SecondsPerTick

\* three targets, the second skipped, the clock moved, the response sent with
\* the results of the first and the third
C8_Witness ==
    /\ Responded200
    /\ Len(targets) = 3
    /\ emitted = <<1, 3>>
    /\ clock \notin StartClocks
    /\ results[1].expiration < results[2].expiration


-----------------------------------------------------------------------------
(* Properties of the Expiration Scheduler *)

\* the dates the chain source returned, in the order it returned them
Available == baseReply[2]

Scheduled == Len(baseReply) = 2 /\ Available # <<>>

\* midnight of the day of the request
Midnight == CHOOSE m \in (clock - DayLen + 1)..clock : m % DayLen = 0

\* the positions in Available of the dates at or after midnight
FuturePositions == {j \in 1..Len(Available) : Available[j] >= Midnight}

\* x is the i-th earliest of the dates at or after midnight
IsIthFuture(x, i) ==
    /\ Cardinality({j \in FuturePositions : Available[j] < x}) < i
    /\ i <= Cardinality({j \in FuturePositions : Available[j] <= x})

C6_WitnessFallback ==
    /\ variant = "api"
    /\ Scheduled
    /\ Len(Available) = 2
    /\ FuturePositions = {}
    /\ targets = <<18>>

WithinWeekPositions ==
    {j \in 1..Len(Available) :
        Available[j] >= clock /\ Available[j] <= clock + 7 * DayLen}

\* x is the earliest of the available dates at the positions P
IsEarliestAt(x, P) ==
    (\E j \in P : Available[j] = x) /\ (\A j \in P : x <= Available[j])

\* C7: the targets of the this-week-then-next policy are [current] or
\* [current, next]: current is the earliest expiration in [now, now + 7 days],
\* or the earliest of all when none is in that window; next is the earliest
\* expiration strictly after current, and is left out when there is none.
C7_ThisWeekThenNextTargets ==
    (variant = "client" /\ Scheduled) =>
        LET current == targets[1]
            later == {j \in 1..Len(Available) : Available[j] > current}
        IN  /\ Len(targets) \in {1, 2}
            /\ IF WithinWeekPositions # {}
               THEN IsEarliestAt(current, WithinWeekPositions)
               ELSE IsEarliestAt(current, 1..Len(Available))
            /\ IF later = {}
               THEN Len(targets) = 1
               ELSE /\ Len(targets) = 2
                    /\ IsEarliestAt(targets[2], later)
                    /\ current < targets[2]

\* an expired date, one earlier today and two within the week are available:
\* current is the earlier of the two within the week and next the other one
C7_Witness ==
    /\ variant = "client"
    /\ Scheduled
    /\ clock = 21
    /\ {Available[j] : j \in 1..Len(Available)} = {18, 20, 24, 34}
    /\ targets = <<24, 34>>

\* nothing falls in the week ahead and nothing follows the earliest date
C7_WitnessNoNext ==
    /\ variant = "client"
    /\ Scheduled
    /\ WithinWeekPositions = {}
    /\ Len(Available) = 2
    /\ Len(targets) = 1

-----------------------------------------------------------------------------
(* Properties of the Goal Scorer *)

\* premium / price >= num / den
ReturnAtLeast(num, den) ==
    scorerIn.premium[1] * den >= num * scorerIn.premium[2] * scorerIn.price

\* days <= n
DaysAtMost(n) == scorerIn.days[1] <= n * scorerIn.days[2]

\* the return gate of the tenor bucket of the series' contract passes
GatePasses ==
    IF scorerIn.v = "api"
    THEN \/ DaysAtMost(8) /\ ReturnAtLeast(1, 1000)
         \/ ~DaysAtMost(8) /\ DaysAtMost(16) /\ ReturnAtLeast(2, 1000)
    ELSE \/ DaysAtMost(8) /\ ReturnAtLeast(25, 10000)
         \/ ~DaysAtMost(8) /\ DaysAtMost(16) /\ ReturnAtLeast(5, 1000)

\* C9: a contract whose return is below the threshold of its tenor bucket, or
\* that is in no bucket (more than 16 days), gets the sentinel -1 and never a
\* positive score; a contract that passes the gate gets a positive score.
C9_GateDecidesSentinelOrPositive ==
    \A i \in 1..Len(scorerLog) :
        IF GatePasses
        THEN scorerLog[i].score[1] > 0
        ELSE scorerLog[i].score = <<-1, 1>>

\* a positive return below the weekly threshold was scored -1
C9_Witness ==
    /\ Len(scorerLog) > 0
    /\ DaysAtMost(8)
    /\ scorerIn.premium[1] > 0
    /\ ~GatePasses
    /\ scorerLog[1].score = <<-1, 1>>

\* a return on the bi-weekly threshold was scored positive
C9_WitnessPass ==
    /\ Len(scorerLog) > 0
    /\ ~DaysAtMost(8)
    /\ GatePasses
    /\ scorerIn.v = "api"
    /\ scorerIn.premium[1] * 1000 = 2 * scorerIn.premium[2] * scorerIn.price
    /\ scorerLog[1].score[1] > 0

\* C10: of two contracts with the same return and day count that pass the
\* gate, the one with the lower assignment probability scores at least as high.
C10_LowerProbabilityScoresAtLeastAsHigh ==
    \A i, j \in 1..Len(scorerLog) :
        (GatePasses /\ RLe(scorerLog[i].prob, scorerLog[j].prob)) =>
            /\ scorerLog[i].score[1] > 0
            /\ scorerLog[j].score[1] > 0
            /\ scorerLog[i].score[1] * scorerLog[j].score[2]
                  >= scorerLog[j].score[1] * scorerLog[i].score[2]

\* probabilities of 30 and 30.1 points, either side of the penalty boundary,
\* were scored, and the lower one scored strictly higher
C10_Witness ==
    /\ GatePasses
    /\ Len(scorerLog) = 2
    /\ scorerLog[1].prob = <<301, 10>>
    /\ scorerLog[2].prob = <<30, 1>>
    /\ scorerLog[2].score[1] * scorerLog[1].score[2]
          > scorerLog[1].score[1] * scorerLog[2].score[2]

-----------------------------------------------------------------------------
(* Properties of the scored contracts *)

\* a goalScore field holding a positive number
PositiveNumber(field) == field[1] = "num" /\ field[2] > 0

\* C11: the goalScore field of every returned contract is the Goal Scorer's
\* real score or the mark of a contract that does not qualify: a contract that
\* fails its tenor gate (meetsTarget false) never carries a positive number.
C11_DisqualifiedCarriesSentinel ==
    \A i \in 1..Len(results) : \A j \in 1..Len(results[i].calls) :
        LET c == results[i].calls[j]
        IN  /\ PositiveNumber(c.goalScore) =>
                  /\ RGt(c.rawScore, RInt(0))
                  /\ c.goalScore = Num(ToFixed(c.rawScore, 1000))
            /\ ~c.meetsTarget => ~PositiveNumber(c.goalScore)

\* premium / spot >= n / d, on the unrounded premium
ReturnOfAtLeast(c, n, d) == RGe(RDiv(c.rawPremium, RInt(currentPrice)), <<n, d>>)

\* C12: options are filtered on the documented return targets of 0.25% weekly
\* and 0.5% bi-weekly: a contract with daysToExpiry <= 8 meets the target only
\* if premium / spot >= 0.25%, one with 8 < daysToExpiry <= 16 only if
\* premium / spot >= 0.5%.
C12_DocumentedTargetsFilter ==
    \A i \in 1..Len(results) : \A j \in 1..Len(results[i].calls) :
        LET c == results[i].calls[j]
        IN  c.meetsTarget =>
                /\ RLe(c.rawDays, RInt(8)) => ReturnOfAtLeast(c, 25, 10000)
                /\ (RGt(c.rawDays, RInt(8)) /\ RLe(c.rawDays, RInt(16))) =>
                       ReturnOfAtLeast(c, 5, 1000)

-----------------------------------------------------------------------------
(* Properties of calculateAssignmentProbability *)

InUnitInterval(x) == RGe(x, RInt(0)) /\ RLe(x, RInt(1))

\* C13: for every input with timeToExpiry > 0 the enhanced probability lies in
\* [0, 1], also when the delta blend, the volatility scaling, the short-dated
\* boost and the moneyness boost push the value above 1 before the final clamp;
\* the original probability lies in [0, 1] too.
C13_ProbabilitiesInUnitInterval ==
    \A k \in 1..Len(probLog) :
        RGt(probLog[k].timeToExpiry, RInt(0)) =>
            /\ InUnitInterval(probLog[k].out.enhanced)
            /\ InUnitInterval(probLog[k].out.original)

\* the refiner was called for a live contract whose adjustments took the value
\* above 1, and returned exactly 1
C13_Witness ==
    /\ Len(probLog) = 1
    /\ probLog[1].v = "api"
    /\ RGt(probLog[1].timeToExpiry, RInt(0))
    /\ RGt(probLog[1].out.unclamped, RInt(1))
    /\ probLog[1].out.enhanced = RInt(1)

-----------------------------------------------------------------------------
(* Properties of the failure paths *)

\* the price fetch was rejected or gave no usable price
QuoteFailed == quoted = <<-1>> \/ quoted = <<0>>

\* the fetch of the expiration dates was rejected
BaseFailed == baseReply = <<"error">>

\* the k-th chain fetch was rejected
ChainFailed(k) == fetched[k].kind = "error"

\* C14: if the price fetch or any chain fetch fails, also one for a later target
\* after earlier targets were analysed, the request ends with exactly one error
\* response carrying a message: no list of expirations is sent, and nothing is
\* fetched after the failed call.
C14_FailureEndsWithOneError ==
    (QuoteFailed \/ BaseFailed \/ \E k \in 1..Len(fetched) : ChainFailed(k)) =>
        /\ pc = "done"
        /\ Len(response) = 1
        /\ response[1].status \in {400, 500}
        /\ DOMAIN response[1] = {"status", "error"}
        /\ response[1].error # ""
        /\ QuoteFailed => baseReply = <<>> /\ fetched = <<>>
        /\ BaseFailed => fetched = <<>>
        /\ \A k \in 1..Len(fetched) : ChainFailed(k) => k = Len(fetched)

\* the chain fetch of a later target was rejected after an earlier target had
\* been analysed into a result with contracts, and the answer was the error alone
C14_Witness ==
    /\ Len(fetched) >= 2
    /\ ChainFailed(Len(fetched))
    /\ Len(results) >= 1
    /\ Len(results[1].calls) >= 1
    /\ response = <<[status |-> 500, error |-> "Failed to fetch weekly options"]>>

-----------------------------------------------------------------------------
(* Properties of the clock reads *)

\* C15: within one run "now" is captured once: for each returned contract
\* daysToExpiry = timeToExpiry * 365 exactly, and all contracts of one
\* expiration have the same day count and the same time to expiry, however
\* much the clock advances during the run.
C15_NowCapturedOnce ==
    \A i \in 1..Len(results) :
        /\ \A j \in 1..Len(results[i].calls) :
              results[i].calls[j].rawDays
                  = RMul(results[i].calls[j].timeToExpiry, RInt(DaysPerYear))
        /\ \A j, k \in 1..Len(results[i].calls) :
              /\ results[i].calls[j].rawDays = results[i].calls[k].rawDays
              /\ results[i].calls[j].timeToExpiry = results[i].calls[k].timeToExpiry

-----------------------------------------------------------------------------
(* Properties of the derived premium *)

\* C16: the premium of every contract is the bid/ask midpoint when bid and ask
\* are both present and positive; otherwise the last traded price when that is
\* present; otherwise 0.  A contract with exactly one of bid and ask missing or
\* zero never uses the midpoint.
C16_PremiumFallbackChain ==
    \A i \in 1..Len(results) : \A j \in 1..Len(results[i].calls) :
        LET c == results[i].calls[j]
        IN  c.rawPremium =
                IF c.bid > 0 /\ c.ask > 0 THEN R(c.bid + c.ask, 2)
                ELSE IF c.lastPrice > 0 THEN RInt(c.lastPrice)
                ELSE RInt(0)

\* a contract quoted on the ask side only was returned with its last traded
\* price as premium, next to one without any quote or trade returned with 0
C16_Witness ==
    \E i \in 1..Len(results) : \E j, k \in 1..Len(results[i].calls) :
        /\ results[i].calls[j].bid = 0
        /\ results[i].calls[j].ask > 0
        /\ results[i].calls[j].lastPrice > 0
        /\ results[i].calls[j].rawPremium = RInt(results[i].calls[j].lastPrice)
        /\ results[i].calls[k].bid = 0
        /\ results[i].calls[k].ask = 0
        /\ results[i].calls[k].lastPrice = 0
        /\ results[i].calls[k].rawPremium = RInt(0)

-----------------------------------------------------------------------------
(* Properties of the expired branch *)

\* C17: for every spot and strike, when timeToExpiry <= 0 the function returns
\* 1 if strike <= spot and 0 otherwise, whatever the volatility (zero included:
\* nothing is divided by it), and the enhanced value equals the original one:
\* no adjustment of the refiner is applied.
C17_ExpiredIsStepFunction ==
    \A k \in 1..Len(probLog) :
        RLe(probLog[k].timeToExpiry, RInt(0)) =>
            /\ probLog[k].out.original
                  = (IF probLog[k].strike <= probLog[k].price THEN RInt(1) ELSE RInt(0))
            /\ probLog[k].out.enhanced = probLog[k].out.original
            /\ probLog[k].out.unclamped = probLog[k].out.original
            /\ probLog[k].out.boost = RInt(1)

\* the function of src/api/index.js was called at the money with a time to
\* expiry of zero, a volatility of zero, a market delta and a normalCDF value
\* that the live branch would have blended and scaled, and returned 1 and 1
C17_Witness ==
    /\ Len(probLog) = 1
    /\ probLog[1].v = "api"
    /\ probLog[1].timeToExpiry = RInt(0)
    /\ probLog[1].strike = probLog[1].price
    /\ probLog[1].sigma = RInt(0)
    /\ probLog[1].marketDelta = <<1, 2>>
    /\ probLog[1].cdfD2 = <<1, 100>>
    /\ probLog[1].out.original = RInt(1)
    /\ probLog[1].out.enhanced = RInt(1)

-----------------------------------------------------------------------------
(* Properties of the result of one expiration *)

\* C18: for every expiration of the result, hasQualifyingOptions is true iff
\* bestOption is non-null, bestOptionReason is non-empty iff bestOption is
\* non-null, and a non-null bestOption is one of the elements of the calls list
\* of that expiration, with meetsTarget true.
C18_BestOptionFlagsAgree ==
    \A i \in 1..Len(results) :
        /\ results[i].hasQualifyingOptions <=> results[i].bestOption # Null
        /\ results[i].bestOptionReason # <<>> <=> results[i].bestOption # Null
        /\ results[i].bestOption # Null =>
              \E j \in 1..Len(results[i].calls) :
                  /\ results[i].calls[j] = results[i].bestOption[1]
                  /\ results[i].calls[j].meetsTarget

\* an expiration came back with a best option, its reason and its flag, among
\* calls of which another one does not qualify
C18_Witness ==
    \E i \in 1..Len(results) :
        /\ results[i].bestOption # Null
        /\ results[i].hasQualifyingOptions
        /\ results[i].bestOptionReason # <<>>
        /\ \E j \in 1..Len(results[i].calls) : ~results[i].calls[j].meetsTarget

\* an expiration came back with contracts none of which qualifies: no best
\* option, an empty reason and the flag off
C18_WitnessNone ==
    \E i \in 1..Len(results) :
        /\ Len(results[i].calls) > 0
        /\ results[i].bestOption = Null
        /\ ~results[i].hasQualifyingOptions
        /\ results[i].bestOptionReason = <<>>

-----------------------------------------------------------------------------
(* Properties of the two gates *)

\* calculateGoalBasedScore let the contract through
Qualifies(c) == c.rawScore # Disqualified

InWeeklyBucket(c) == RLe(c.rawDays, RInt(WeeklyDays))
InBiweeklyBucket(c) == RGt(c.rawDays, RInt(WeeklyDays)) /\ RLe(c.rawDays, RInt(BiweeklyDays))

\* C19 as stated: meetsTarget is true exactly when the scorer returns a score
\* other than the sentinel, and targetType is 'weekly' exactly when
\* daysToExpiry <= 8, 'bi-weekly' exactly when 8 < daysToExpiry <= 16, 'none'
\* exactly when the scorer disqualifies the contract.
C19_GatesAgreeAsStated ==
    \A i \in 1..Len(results) : \A j \in 1..Len(results[i].calls) :
        LET c == results[i].calls[j]
        IN  /\ c.meetsTarget <=> Qualifies(c)
            /\ c.targetType = "weekly" <=> InWeeklyBucket(c)
            /\ c.targetType = "bi-weekly" <=> InBiweeklyBucket(c)
            /\ c.targetType = "none" <=> ~Qualifies(c)

\* C19: the presentation gate and the scorer's gate agree for every contract:
\* meetsTarget is true exactly when the scorer returns a score other than the
\* sentinel for the same premium, spot and daysToExpiry; targetType is 'none'
\* exactly when the scorer disqualifies the contract, and for a contract the
\* scorer lets through it is 'weekly' exactly when daysToExpiry <= 8 and
\* 'bi-weekly' exactly when 8 < daysToExpiry <= 16.
C19_GatesAgree ==
    \A i \in 1..Len(results) : \A j \in 1..Len(results[i].calls) :
        LET c == results[i].calls[j]
        IN  /\ c.meetsTarget <=> Qualifies(c)
            /\ c.targetType = "none" <=> ~Qualifies(c)
            /\ c.targetType = "weekly" <=> (Qualifies(c) /\ InWeeklyBucket(c))
            /\ c.targetType = "bi-weekly" <=> (Qualifies(c) /\ InBiweeklyBucket(c))

\* two contracts of one expiration at most 8 days away came back, one let
\* through by both gates as 'weekly', one turned down by both as 'none'
C19_Witness ==
    \E i \in 1..Len(results) : \E j, k \in 1..Len(results[i].calls) :
        /\ InWeeklyBucket(results[i].calls[j])
        /\ results[i].calls[j].meetsTarget
        /\ results[i].calls[j].targetType = "weekly"
        /\ InWeeklyBucket(results[i].calls[k])
        /\ RGt(results[i].calls[k].rawPremium, RInt(0))
        /\ ~results[i].calls[k].meetsTarget
        /\ results[i].calls[k].targetType = "none"

\* a contract between 8 and 16 days away came back as 'bi-weekly'
C19_WitnessBiweekly ==
    \E i \in 1..Len(results) : \E j \in 1..Len(results[i].calls) :
        /\ InBiweeklyBucket(results[i].calls[j])
        /\ results[i].calls[j].meetsTarget
        /\ results[i].calls[j].targetType = "bi-weekly"

-----------------------------------------------------------------------------
(* Properties of the moneyness adjustment in the pipeline *)

\* spot / strike of a returned contract
Moneyness(c) == R(currentPrice, c.strike)

NearTheMoney(c) == RGt(Moneyness(c), <<95, 100>>)

\* C20 as stated: every admitted contract has spot / strike < 1, so the 1.10
\* boost of the refiner is applied to no returned contract; the 1.05 boost is
\* applied exactly to the admitted contracts with spot / strike > 0.95, and no
\* moneyness change to the others.
C20_MoneynessBoostAsStated ==
    \A i \in 1..Len(results) : \A j \in 1..Len(results[i].calls) :
        LET c == results[i].calls[j]
        IN  /\ RLt(Moneyness(c), RInt(1))
            /\ variant = "api" =>
                  /\ c.probs.boost # <<11, 10>>
                  /\ c.probs.boost = <<105, 100>> <=> NearTheMoney(c)
                  /\ ~NearTheMoney(c) => c.probs.boost = RInt(1)

\* C20: every admitted contract has spot / strike < 1, so the 1.10 boost of
\* the refiner is applied to no returned contract; the 1.05 boost is applied
\* exactly to the admitted contracts with spot / strike > 0.95 whose
\* timeToExpiry is positive, and no moneyness change to the others (for
\* timeToExpiry <= 0 the refiner is not run at all).
C20_MoneynessBoost ==
    \A i \in 1..Len(results) : \A j \in 1..Len(results[i].calls) :
        LET c == results[i].calls[j]
        IN  /\ RLt(Moneyness(c), RInt(1))
            /\ variant = "api" =>
                  /\ c.probs.boost # <<11, 10>>
                  /\ c.probs.boost = <<105, 100>>
                        <=> (NearTheMoney(c) /\ RGt(c.timeToExpiry, RInt(0)))
                  /\ c.probs.boost # <<105, 100>> => c.probs.boost = RInt(1)

\* src/api/index.js returned two live contracts of one expiration, one with
\* spot / strike above 0.95 that got the 1.05 boost, one at or below 0.95 that
\* got none
C20_Witness ==
    /\ variant = "api"
    /\ \E i \in 1..Len(results) : \E j, k \in 1..Len(results[i].calls) :
          /\ RGt(results[i].calls[j].timeToExpiry, RInt(0))
          /\ NearTheMoney(results[i].calls[j])
          /\ results[i].calls[j].probs.boost = <<105, 100>>
          /\ RGt(results[i].calls[j].probs.enhanced, results[i].calls[j].probs.original)
          /\ RGt(results[i].calls[k].timeToExpiry, RInt(0))
          /\ ~NearTheMoney(results[i].calls[k])
          /\ results[i].calls[k].probs.boost = RInt(1)

\* src/api/index.js returned a contract of an expired target with spot / strike
\* above 0.95 and no boost
C20_WitnessExpired ==
    /\ variant = "api"
    /\ \E i \in 1..Len(results) : \E j \in 1..Len(results[i].calls) :
          /\ RLe(results[i].calls[j].timeToExpiry, RInt(0))
          /\ NearTheMoney(results[i].calls[j])
          /\ results[i].calls[j].probs.boost = RInt(1)


====
